---- MODULE Spec2Model ----
(***************************************************************************)
(* MP4TagReader: the atom-tree Loader (_loadData/_loadAtom), the Value     *)
(* Decoder (_parseData/_readAtom) and the format signature check           *)
(* (canReadTagFormat), over a byte-level file.                             *)
(*                                                                         *)
(* A file is a sequence of bytes; byte offset o of the source is file[o+1].*)
(* FourCC names are the 4 byte codes getStringAt turns into characters;    *)
(* parentAtomFullName (a dot-joined string) is the sequence of the joined  *)
(* names.                                                                  *)
(***************************************************************************)
EXTENDS Integers, Sequences, FiniteSets, TLC

(* ---------------- bounds ---------------- *)
\* largest number of value atoms placed in the innermost container
MaxItems == 2

(* ---------------- the result of an unreadable numeric read ------------- *)
NaN == -1

(* ---------------- FourCC codes ---------------- *)
moov == <<109, 111, 111, 118>>
udta == <<117, 100, 116, 97>>
meta == <<109, 101, 116, 97>>
ilst == <<105, 108, 115, 116>>
trkn == <<116, 114, 107, 110>>
cmt == <<169, 99, 109, 116>>
nam == <<169, 110, 97, 109>>
covr == <<99, 111, 118, 114>>
cpil == <<99, 112, 105, 108>>
dashes == <<45, 45, 45, 45>>
rtng == <<114, 116, 110, 103>>
free == <<102, 114, 101, 101>>
ftyp == <<102, 116, 121, 112>>
mdat == <<109, 100, 97, 116>>
dataName == <<100, 97, 116, 97>>
\* the key "count" stored next to trkn
count == <<99, 111, 117, 110, 116>>

ContainerNames == <<moov, udta, meta, ilst>>

\* the string "moov.udta.meta.ilst"
MetaPath == <<moov, udta, meta, ilst>>

TYPES == (0 :> "uint8") @@ (1 :> "text") @@ (13 :> "jpeg") @@ (14 :> "png")
         @@ (21 :> "uint8")

ATOMS == { <<169, 97, 108, 98>>, <<169, 97, 114, 116>>, <<169, 65, 82, 84>>,
           <<97, 65, 82, 84>>, <<169, 100, 97, 121>>, nam,
           <<169, 103, 101, 110>>, trkn, <<169, 119, 114, 116>>,
           <<169, 116, 111, 111>>, <<99, 112, 114, 116>>, covr,
           <<169, 103, 114, 112>>, <<107, 101, 121, 119>>,
           <<169, 108, 121, 114>>, cmt, <<116, 109, 112, 111>>, cpil,
           <<100, 105, 115, 107>> }

UNSUPPORTED_ATOMS == { dashes }

(* ---------------- atom trees and their bytes ---------------- *)
\* big-endian encodings of a size / class field
U32(n) == << (n \div 16777216) % 256, (n \div 65536) % 256,
             (n \div 256) % 256, n % 256 >>
U24(n) == << (n \div 65536) % 256, (n \div 256) % 256, n % 256 >>

_isContainerAtom(atomName) ==
    \E i \in 1..Len(ContainerNames) : ContainerNames[i] = atomName

\* a value atom holding one "data" sub-atom: size, name, size, "data",
\* version, 3 bytes of class, 4 bytes of locale, payload
DataAtom(name, klass, payload) ==
    [name |-> name, kids |-> <<>>, size |-> NaN,
     body |-> U32(16 + Len(payload)) \o dataName \o <<0>> \o U24(klass)
              \o <<0, 0, 0, 0>> \o payload]

\* a value atom with raw content
RawAtom(name, body) ==
    [name |-> name, kids |-> <<>>, size |-> NaN, body |-> body]

\* a value atom whose size field holds the given number instead of its length
SizedAtom(name, body, size) ==
    [name |-> name, kids |-> <<>>, size |-> size, body |-> body]

Container(name, kids) ==
    [name |-> name, kids |-> kids, size |-> NaN, body |-> <<>>]

RECURSIVE AtomBytes(_), ListBytes(_)
AtomBytes(a) ==
    LET inner == IF _isContainerAtom(a.name)
                 THEN (IF a.name = meta THEN <<0, 0, 0, 0>> ELSE <<>>)
                      \o ListBytes(a.kids)
                 ELSE a.body
    IN U32(IF a.size = NaN THEN 8 + Len(inner) ELSE a.size) \o a.name \o inner

ListBytes(l) ==
    IF l = <<>> THEN <<>> ELSE AtomBytes(Head(l)) \o ListBytes(Tail(l))

\* the atoms of a tree with their true position and ancestor chain
RECURSIVE TrueAtoms(_, _, _)
TrueAtoms(l, base, path) ==
    IF l = <<>> THEN {}
    ELSE LET a == Head(l)
             sz == Len(AtomBytes(a))
             first == IF a.name = meta THEN base + 12 ELSE base + 8
         IN {[off |-> base, size |-> sz, name |-> a.name, path |-> path,
              value |-> ~_isContainerAtom(a.name)]}
            \cup (IF _isContainerAtom(a.name)
                  THEN TrueAtoms(a.kids, first, Append(path, a.name))
                  ELSE {})
            \cup TrueAtoms(Tail(l), base + sz, path)

\* the value atoms placed in the innermost container
Items == { DataAtom(nam, 1, <<83>>),
           DataAtom(trkn, 0, <<0, 0, 0, 5, 0, 12, 0, 0>>),
           DataAtom(dashes, 1, <<120>>),
           DataAtom(rtng, 2, <<1>>),
           RawAtom(free, <<>>),
           SizedAtom(free, <<>>, 0) }

\* every atom of the list declares its true size
RECURSIVE SizesTrue(_)
SizesTrue(l) ==
    \A i \in 1..Len(l) : l[i].size = NaN /\ SizesTrue(l[i].kids)

RECURSIVE SeqsUpTo(_, _)
SeqsUpTo(S, n) ==
    IF n = 0 THEN {<<>>}
    ELSE LET shorter == SeqsUpTo(S, n - 1)
         IN shorter \cup {Append(s, x) : s \in {t \in shorter : Len(t) = n - 1}, x \in S}

Spines == { <<moov, udta, meta, ilst>>, <<moov, udta, ilst>>, <<moov, udta, meta>> }

FtypAtom == RawAtom(ftyp, <<77, 52, 65, 32, 0, 0, 0, 0>>)
MdatAtom == RawAtom(mdat, <<1, 2, 3, 4>>)
ExtraIlst == Container(ilst, <<DataAtom(nam, 1, <<84>>)>>)

\* the atom list at nesting level lvl of a file: the spine container of that
\* level, preceded (pre = 1) by a value atom at levels 1 and 3, and followed at
\* level post[1] by an mdat atom (post[2] = 1) or an ilst container
\* (post[2] = 2)
RECURSIVE Level(_, _, _, _, _)
Level(spine, lvl, items, pre, post) ==
    IF lvl > Len(spine) THEN items
    ELSE (IF pre = 1 /\ lvl \in {1, 3}
          THEN <<IF lvl = 1 THEN FtypAtom ELSE MdatAtom>>
          ELSE <<>>)
         \o <<Container(spine[lvl], Level(spine, lvl + 1, items, pre, post))>>
         \o (IF post[1] = lvl
             THEN <<IF post[2] = 2 THEN ExtraIlst ELSE MdatAtom>>
             ELSE <<>>)

PostChoices == { <<0, 1>>, <<1, 1>>, <<2, 1>>, <<3, 1>>, <<4, 1>>, <<3, 2>> }

Trees ==
    { Level(sp, 1, it, pre, post) :
        sp \in Spines, it \in SeqsUpTo(Items, MaxItems),
        pre \in {0, 1}, post \in PostChoices }

\* the number of bytes a source may lack at its end: none, or enough to cut
\* into the header of a last atom without payload (sources starting with moov)
Cuts(t) == IF t[1].name = moov THEN {0, 5} ELSE {0}

Truncated(bytes, cut) == SubSeq(bytes, 1, Len(bytes) - cut)

(* ---------------- state ---------------- *)
VARIABLES
    tree,           \* the atom tree the file was built from
    file,           \* the bytes of the source (mediaFileReader / data)
    pc,             \* "init", "loading", "loaded", "failed", "parsing", "parsed"
    pending,        \* loadRange requests whose callbacks have not run yet
    requested,      \* every range passed to loadRange so far
    completed,      \* the ranges whose onSuccess has run
    loadAtomCalls,  \* the (offset, parentAtomFullName) of each _loadAtom call
    nSuccess,       \* number of callbacks.onSuccess invocations
    nError,         \* number of callbacks.onError invocations
    seek,           \* _readAtom: the running position
    limit,          \* _readAtom: offset + length
    dpath,          \* _readAtom: parentAtomFullName
    tag,            \* the mapping _parseData builds
    atomData,       \* _readAtom: the function-scoped var atomData
    dReads,         \* byte positions _readAtom has read
    dVisits,        \* the headers _readAtom has read
    tagIdentifier,  \* canReadTagFormat: its argument
    canRead         \* canReadTagFormat: its result ("none" before the call)

vars == <<tree, file, pc, pending, requested, completed, loadAtomCalls,
          nSuccess, nError, seek, limit, dpath, tag, atomData, dReads,
          dVisits, tagIdentifier, canRead>>

loaderVars == <<pending, requested, completed, loadAtomCalls, nSuccess, nError>>
decoderVars == <<seek, limit, dpath, tag, atomData, dReads, dVisits>>
idVars == <<tagIdentifier, canRead>>

(* ---------------- the byte source (MediaFileReader) ---------------- *)
getSize == Len(file)

getByteAt(offset) ==
    IF offset >= 0 /\ offset < Len(file) THEN file[offset + 1] ELSE NaN

getLongAt(offset) ==
    IF offset >= 0 /\ offset + 3 < Len(file)
    THEN ((file[offset + 1] * 256 + file[offset + 2]) * 256
          + file[offset + 3]) * 256 + file[offset + 4]
    ELSE NaN

getInteger24At(offset) ==
    IF offset >= 0 /\ offset + 2 < Len(file)
    THEN (file[offset + 1] * 256 + file[offset + 2]) * 256 + file[offset + 3]
    ELSE NaN

\* little-endian 16-bit read (second argument false)
getShortAt(offset) ==
    IF offset >= 0 /\ offset + 1 < Len(file)
    THEN file[offset + 2] * 256 + file[offset + 1]
    ELSE NaN

getStringAt(offset, length) == [i \in 1..length |-> getByteAt(offset + i - 1)]

getBytesAt(offset, length) ==
    IF length > 0 THEN [i \in 1..length |-> getByteAt(offset + i - 1)] ELSE <<>>

(* ---------------- the Loader ---------------- *)
Request(range, offset, path) ==
    [range |-> range, offset |-> offset, path |-> path]

\* parentAtomFullName ? parentAtomFullName + "." + atomName : atomName
FullName(parentAtomFullName, atomName) == Append(parentAtomFullName, atomName)

\* the container branch issuing the child header and the trailing header as
\* two loads
ContainerRequestsSplit(offset, atomFullName) ==
    { Request(<<offset + 8, offset + 8 + 7>>, offset + 8, atomFullName),
      Request(<<offset + 8 + 8, offset + 8 + 8>>, offset + 8, atomFullName) }

\* the container branch going on under the name of the parent
ContainerRequestsParentName(offset, atomFullName) ==
    { Request(<<offset + 8, offset + 8 + 8>>, offset + 8,
              SubSeq(atomFullName, 1, Len(atomFullName) - 1)) }

\* the loadRange of the container branch
ContainerRequests(offset, atomFullName) ==
    { Request(<<offset + 8, offset + 8 + 8>>, offset + 8, atomFullName) }

\* the value branch going on at the atom it has just read
NextSiblingStuck(offset, atomSize) == offset

\* the offset of the sibling a value atom is followed by
NextSibling(offset, atomSize) == offset + atomSize

\* the value branch loading the atom without the header that follows it
ValueRequestsNoNextHeader(offset, atomSize, parentAtomFullName) ==
    LET shouldReadAtom == parentAtomFullName = MetaPath
    IN { Request(<<offset + (IF shouldReadAtom THEN 0 ELSE atomSize),
                   offset + atomSize - 1>>,
                 NextSibling(offset, atomSize), parentAtomFullName) }

\* the loadRange of the value branch
ValueRequests(offset, atomSize, parentAtomFullName) ==
    LET shouldReadAtom == parentAtomFullName = MetaPath
    IN { Request(<<offset + (IF shouldReadAtom THEN 0 ELSE atomSize),
                   offset + atomSize + 8>>,
                 NextSibling(offset, atomSize), parentAtomFullName) }

\* a zero size taken for the size of an atom
EndOfAtomsNaNOnly(atomSize) == atomSize = NaN

\* atomSize == 0 || isNaN(atomSize)
EndOfAtoms(atomSize) == atomSize = 0 \/ atomSize = NaN

\* meta treated as the other containers
ChildrenOffsetNoSkip(atomName, offset) == offset

\* if (atomName == "meta") offset += 4
ChildrenOffset(atomName, offset) ==
    IF atomName = meta THEN offset + 4 ELSE offset

\* what one call of _loadAtom does: it calls callbacks.onSuccess or issues
\* loadRange requests
_loadAtom(offset, parentAtomFullName) ==
    IF offset >= getSize
    THEN [onSuccess |-> TRUE, loadRange |-> {}]
    ELSE LET atomSize == getLongAt(offset)
         IN IF EndOfAtoms(atomSize)
            THEN [onSuccess |-> TRUE, loadRange |-> {}]
            ELSE LET atomName == getStringAt(offset + 4, 4)
                 IN IF _isContainerAtom(atomName)
                    THEN [onSuccess |-> FALSE,
                          loadRange |->
                            ContainerRequests(
                              ChildrenOffset(atomName, offset),
                              FullName(parentAtomFullName, atomName))]
                    ELSE [onSuccess |-> FALSE,
                          loadRange |->
                            ValueRequests(offset, atomSize, parentAtomFullName)]

\* _loadData: load the header of the first atom
LoadData ==
    /\ pc = "init"
    /\ pc' = "loading"
    /\ pending' = pending \cup {Request(<<0, 7>>, 0, <<>>)}
    /\ requested' = requested \cup {<<0, 7>>}
    /\ UNCHANGED <<tree, file, completed, loadAtomCalls, nSuccess, nError>>
    /\ UNCHANGED decoderVars
    /\ UNCHANGED idVars

\* a loadRange succeeds: its onSuccess callback runs _loadAtom
OnSuccess(req) ==
    LET r == _loadAtom(req.offset, req.path)
    IN /\ completed' = completed \cup {req.range}
       /\ loadAtomCalls' = Append(loadAtomCalls,
                                  [offset |-> req.offset, path |-> req.path])
       /\ pending' = (pending \ {req}) \cup r.loadRange
       /\ requested' = requested \cup {q.range : q \in r.loadRange}
       /\ nSuccess' = IF r.onSuccess THEN nSuccess + 1 ELSE nSuccess
       /\ pc' = IF r.onSuccess THEN "loaded" ELSE pc
       /\ UNCHANGED nError

\* a failed loadRange that is issued again
OnErrorRetry(req) ==
    /\ pending' = pending
    /\ nError' = nError + 1
    /\ pc' = pc
    /\ UNCHANGED <<requested, completed, loadAtomCalls, nSuccess>>

\* a loadRange fails: its onError callback is callbacks.onError
OnError(req) ==
    /\ pending' = pending \ {req}
    /\ nError' = nError + 1
    /\ pc' = "failed"
    /\ UNCHANGED <<requested, completed, loadAtomCalls, nSuccess>>

LoadRangeSuccess ==
    /\ \E req \in pending : OnSuccess(req)
    /\ UNCHANGED <<tree, file>>
    /\ UNCHANGED decoderVars
    /\ UNCHANGED idVars

LoadRangeError ==
    /\ \E req \in pending : OnError(req)
    /\ UNCHANGED <<tree, file>>
    /\ UNCHANGED decoderVars
    /\ UNCHANGED idVars

(* ---------------- the Value Decoder ---------------- *)
\* numbers that may be NaN
Add(a, b) == IF a = NaN \/ b = NaN THEN NaN ELSE a + b
Lt(a, b) == a # NaN /\ b # NaN /\ a < b

Span(offset, length) == IF length > 0 THEN offset..(offset + length - 1) ELSE {}

Undefined == [type |-> "undefined", n |-> 0, bytes |-> <<>>, wrapped |-> FALSE]
Number(n) == [type |-> "number", n |-> n, bytes |-> <<>>, wrapped |-> FALSE]

\* UTF-8 decoding of one- and two-byte sequences into code points; a byte that
\* starts no such sequence decodes to U+FFFD
RECURSIVE Utf8(_)
Utf8(b) ==
    IF b = <<>> THEN <<>>
    ELSE IF b[1] >= 0 /\ b[1] < 128 THEN <<b[1]>> \o Utf8(Tail(b))
    ELSE IF b[1] >= 192 /\ b[1] < 224 /\ Len(b) >= 2 /\ b[2] >= 128 /\ b[2] < 192
         THEN <<(b[1] - 192) * 64 + (b[2] - 128)>> \o Utf8(Tail(Tail(b)))
    ELSE <<65533>> \o Utf8(Tail(b))

getStringWithCharsetAt(offset, length) ==
    [type |-> "string", n |-> 0, bytes |-> Utf8(getBytesAt(offset, length)),
     wrapped |-> FALSE]

\* every atom name readable
_canReadAtomAny(atomName) == TRUE

_canReadAtom(atomName) == atomName # dashes

\* TYPES[klass], "undefined" when klass is no key of TYPES
TypeOf(klass) == IF klass \in DOMAIN TYPES THEN TYPES[klass] ELSE "undefined"

\* the switch (type) of _readAtom: the new content of the var atomData
Decode(type, dataStart, dataLength, old) ==
    CASE type = "text" -> getStringWithCharsetAt(dataStart, dataLength)
      [] type = "uint8" -> Number(getShortAt(dataStart))
      [] type \in {"jpeg", "png"} ->
            [type |-> IF type = "jpeg" THEN "image/jpeg" ELSE "image/png", n |-> 0,
             bytes |-> getBytesAt(dataStart, dataLength), wrapped |-> FALSE]
      [] OTHER -> old

\* the byte positions the switch (type) reads
DecodeReads(type, dataStart, dataLength) ==
    CASE type \in {"text", "jpeg", "png"} -> Span(dataStart, dataLength)
      [] type = "uint8" -> {dataStart, dataStart + 1}
      [] OTHER -> {}

\* tag[atomName] = value
Store(t, atomName, value) == (atomName :> value) @@ t

\* _parseData: tag = {}; _readAtom(tag, data, 0, data.getSize())
ParseData ==
    /\ pc = "loaded"
    /\ pc' = "parsing"
    /\ seek' = 0
    /\ limit' = getSize
    /\ dpath' = <<>>
    /\ tag' = <<>>
    /\ atomData' = Undefined
    /\ UNCHANGED <<dReads, dVisits, tree, file>>
    /\ UNCHANGED loaderVars
    /\ UNCHANGED idVars

\* one iteration of the while loop of _readAtom; the recursive call on a
\* container is followed by return, so the callee's frame replaces the caller's
ReadAtomIter ==
    /\ pc = "parsing"
    /\ Lt(seek, limit)
    /\ LET atomSize == getLongAt(seek)
           atomName == getStringAt(seek + 4, 4)
           readable == dpath = MetaPath /\ _canReadAtom(atomName)
           klass == getInteger24At(seek + 16 + 1)
           type == TypeOf(klass)
           atomHeader == 16 + 4 + 4
           dataStart == seek + atomHeader
           dataLength == Add(atomSize, -atomHeader)
           newData == Decode(type, dataStart, dataLength, atomData)
       IN IF atomSize = 0
          THEN /\ pc' = "parsed"
               /\ dReads' = dReads \cup Span(seek, 4)
               /\ UNCHANGED <<seek, limit, dpath, tag, atomData, dVisits>>
          ELSE IF _isContainerAtom(atomName)
          THEN LET seek2 == IF atomName = meta THEN seek + 4 ELSE seek
               IN /\ seek' = seek2 + 8
                  /\ limit' = Add(seek2 + 8, Add(atomSize, -8))
                  /\ dpath' = FullName(dpath, atomName)
                  /\ atomData' = Undefined
                  /\ dReads' = dReads \cup Span(seek, 8)
                  /\ dVisits' = Append(dVisits, [off |-> seek, name |-> atomName,
                                                 path |-> dpath, stored |-> FALSE])
                  /\ UNCHANGED <<pc, tag>>
          ELSE /\ seek' = Add(seek, atomSize)
               /\ dVisits' = Append(dVisits, [off |-> seek, name |-> atomName,
                                              path |-> dpath, stored |-> readable])
               /\ UNCHANGED <<pc, limit, dpath>>
               /\ IF ~readable
                  THEN /\ dReads' = dReads \cup Span(seek, 8)
                       /\ UNCHANGED <<tag, atomData>>
                  ELSE IF atomName = trkn
                  THEN /\ tag' = Store(Store(tag, atomName,
                                             Number(getByteAt(seek + 16 + 11))),
                                       count, Number(getByteAt(seek + 16 + 13)))
                       /\ dReads' = dReads \cup Span(seek, 8) \cup Span(seek + 17, 3)
                                    \cup {seek + 16 + 11, seek + 16 + 13}
                       /\ UNCHANGED atomData
                  ELSE /\ atomData' = newData
                       /\ tag' = Store(tag, atomName,
                                       IF atomName = cmt
                                       THEN [newData EXCEPT !.wrapped = TRUE]
                                       ELSE newData)
                       /\ dReads' = dReads \cup Span(seek, 8) \cup Span(seek + 17, 3)
                                    \cup DecodeReads(type, dataStart, dataLength)
    /\ UNCHANGED <<tree, file>>
    /\ UNCHANGED loaderVars
    /\ UNCHANGED idVars

\* the while condition fails: _readAtom returns, and so does _parseData
ReadAtomReturn ==
    /\ pc = "parsing"
    /\ ~Lt(seek, limit)
    /\ pc' = "parsed"
    /\ UNCHANGED <<seek, limit, dpath, tag, atomData, dReads, dVisits, tree, file>>
    /\ UNCHANGED loaderVars
    /\ UNCHANGED idVars

(* ---------------- the format signature check ---------------- *)
\* tagIdentifier.slice(4, 11)
Slice(a, from, to) ==
    LET hi == IF to < Len(a) THEN to ELSE Len(a)
    IN IF from < hi THEN [i \in 1..(hi - from) |-> a[from + i]] ELSE <<>>

\* String.fromCharCode: each number becomes the UTF-16 code unit n mod 2^16
fromCharCode(a) == [i \in 1..Len(a) |-> a[i] % 65536]

\* the code units of "ftypM4A"
FtypM4A == <<102, 116, 121, 112, 77, 52, 65>>

\* the signature looked for one byte early
canReadTagFormatShifted(id) == fromCharCode(Slice(id, 3, 10)) = FtypM4A

canReadTagFormat(id) == fromCharCode(Slice(id, 4, 11)) = FtypM4A

\* getTagIdentifierByteRange
TagIdentifierOffset == 0
TagIdentifierLength == 11

\* the bytes an identifier array is made of: each letter of the signature,
\* a letter in the other case, and a zero byte
IdBytes(i) ==
    IF i <= 4 THEN {0, 32}
    ELSE {FtypM4A[i - 4], IF FtypM4A[i - 4] >= 97 THEN FtypM4A[i - 4] - 32
                          ELSE FtypM4A[i - 4] + 32, 0}

RECURSIVE IdsOfLength(_)
IdsOfLength(n) ==
    IF n = 0 THEN {<<>>}
    ELSE {Append(s, b) : s \in IdsOfLength(n - 1), b \in IdBytes(n)}

Identifiers == IdsOfLength(TagIdentifierLength)

CheckFormat ==
    /\ canRead = "none"
    /\ canRead' = IF canReadTagFormat(tagIdentifier) THEN "true" ELSE "false"
    /\ UNCHANGED <<tagIdentifier, tree, file, pc>>
    /\ UNCHANGED loaderVars
    /\ UNCHANGED decoderVars

(* ---------------- specifications ---------------- *)
Init ==
    /\ tree \in Trees
    /\ file \in {Truncated(ListBytes(tree), cut) : cut \in Cuts(tree)}
    /\ pc = "init"
    /\ pending = {}
    /\ requested = {}
    /\ completed = {}
    /\ loadAtomCalls = <<>>
    /\ nSuccess = 0
    /\ nError = 0
    /\ seek = 0
    /\ limit = 0
    /\ dpath = <<>>
    /\ tag = <<>>
    /\ atomData = Undefined
    /\ dReads = {}
    /\ dVisits = <<>>
    /\ tagIdentifier = <<>>
    /\ canRead = "none"

Next ==
    \/ LoadData
    \/ LoadRangeSuccess
    \/ LoadRangeError
    \/ ParseData
    \/ ReadAtomIter
    \/ ReadAtomReturn

Spec == Init /\ [][Next]_vars

\* every issued loadRange eventually invokes one of its callbacks, and the
\* synchronous code runs to its end
FairSpec ==
    /\ Spec
    /\ WF_vars(LoadData)
    /\ WF_vars(LoadRangeSuccess \/ LoadRangeError)
    /\ WF_vars(ReadAtomIter \/ ReadAtomReturn)

IdInit ==
    /\ tagIdentifier \in Identifiers
    /\ canRead = "none"
    /\ tree = <<>>
    /\ file = <<>>
    /\ pc = "init"
    /\ pending = {}
    /\ requested = {}
    /\ completed = {}
    /\ loadAtomCalls = <<>>
    /\ nSuccess = 0
    /\ nError = 0
    /\ seek = 0
    /\ limit = 0
    /\ dpath = <<>>
    /\ tag = <<>>
    /\ atomData = Undefined
    /\ dReads = {}
    /\ dVisits = <<>>

IdNext == CheckFormat

IdSpec == IdInit /\ [][IdNext]_vars

(* ---------------- properties ---------------- *)
\* the atoms of the file with their actual ancestor chains
Actual == TrueAtoms(tree, 0, <<>>)

\* the value atoms whose actual ancestor chain is moov, udta, meta, ilst
Eligible == {a \in Actual : a.value /\ a.path = MetaPath}

\* the source holds every byte of its atom tree and every size field is true
Complete == file = ListBytes(tree) /\ SizesTrue(tree)

\* position p lies in a range passed to loadRange
Requested(p) == \E r \in requested : r[1] <= p /\ p <= r[2]

\* C1: once the Loader has called callbacks.onSuccess, every byte position the
\* Decoder reads lies in a range the Loader requested or in the identifier
\* range 0..10.
C1_DecoderReadsAreLoaded ==
    (Complete /\ pc \in {"parsing", "parsed"}) =>
        \A p \in dReads :
            \/ Requested(p)
            \/ p \in TagIdentifierOffset..(TagIdentifierOffset + TagIdentifierLength - 1)

\* C2: the Loader requests no payload byte (position >= header + 8) of a value
\* atom whose actual ancestor chain is not moov, udta, meta, ilst.
C2_NoPayloadOutsideMetaPath ==
    \A a \in Actual :
        (Complete /\ a.value /\ a.path # MetaPath) =>
            \A p \in (a.off + 8)..(a.off + a.size - 1) : ~Requested(p)

\* C6: every key of the mapping other than "count" is the FourCC of a value
\* atom whose actual ancestor chain is moov, udta, meta, ilst, and every atom
\* whose bytes were decoded is such an atom.
C6_OnlyEligibleAtomsDecoded ==
    Complete =>
    /\ \A k \in DOMAIN tag \ {count} : \E a \in Eligible : a.name = k
    /\ \A i \in 1..Len(dVisits) :
          dVisits[i].stored =>
              \E a \in Eligible : a.off = dVisits[i].off /\ a.name = dVisits[i].name

\* C7: the mapping returned for a tree with a moov.udta.meta.ilst path holding
\* N distinct recognized FourCCs has exactly N entries, one per FourCC.
C7_OneEntryPerRecognizedAtom ==
    (Complete /\ pc = "parsed" /\ \E a \in Actual : a.name = ilst /\ a.path = <<moov, udta, meta>>) =>
        DOMAIN tag = {a.name : a \in {e \in Eligible : e.name \in ATOMS}}

\* C8: a FourCC that is no key of ATOMS (and no container name) never becomes
\* a key of the mapping.
C8_UnrecognizedNotStored ==
    \A a \in Eligible : (Complete /\ pc = "parsed" /\ a.name \notin ATOMS) => a.name \notin DOMAIN tag

\* the _loadAtom calls made so far are at strictly increasing offsets
LoadAtomStep ==
    (Len(loadAtomCalls') > Len(loadAtomCalls) /\ Len(loadAtomCalls) > 0) =>
        loadAtomCalls'[Len(loadAtomCalls')].offset
            > loadAtomCalls[Len(loadAtomCalls)].offset

\* C3: a run started by _loadData eventually invokes callbacks.onSuccess or
\* callbacks.onError, and the offsets of successive _loadAtom calls strictly
\* increase.
C3_LoaderTerminates ==
    /\ <>(nSuccess + nError > 0)
    /\ [][LoadAtomStep]_vars

C3_Witness == pc = "loaded" /\ nSuccess = 1 /\ Len(loadAtomCalls) >= 6

\* a loadRange reported an error: its request left pending without completing
Failed == \E r \in pending : r \notin pending' /\ r.range \notin completed'

\* C4: when a loadRange reports an error callbacks.onError is invoked, and
\* from then on no loadRange is issued or outstanding, no _loadAtom runs and
\* callbacks.onSuccess is never invoked.
C4_FailurePropagates ==
    /\ [][Failed => nError' = nError + 1]_vars
    /\ [](nError > 0 => (pending = {} /\ nSuccess = 0 /\ pc = "failed"))
    /\ [][nError > 0 => UNCHANGED <<requested, pending, loadAtomCalls, nSuccess,
                                    dReads, tag>>]_vars

C4_Witness == nError = 1 /\ pc = "failed" /\ Len(loadAtomCalls) >= 3

\* a step that passes a new range to loadRange
Issues == pending' \ pending # {}

\* C5: at most one loadRange is outstanding, and a loadRange is issued only by
\* _loadData or from the onSuccess callback of the previous one, after
\* _loadAtom has read the header that one made available.
C5_OneOutstandingLoad ==
    /\ [](Cardinality(pending) <= 1)
    /\ [][Issues =>
            \/ pc = "init" /\ pending = {}
            \/ \E r \in pending :
                  /\ r \notin pending'
                  /\ r.range \in completed'
                  /\ Len(loadAtomCalls') = Len(loadAtomCalls) + 1
                  /\ loadAtomCalls'[Len(loadAtomCalls')].offset = r.offset]_vars

C5_Witness == Cardinality(pending) = 1 /\ Len(loadAtomCalls) >= 4

\* the Decoder stands at the header of a "----" value atom
AtDashes ==
    /\ pc = "parsing"
    /\ Lt(seek, limit)
    /\ getLongAt(seek) # 0
    /\ getStringAt(seek + 4, 4) = dashes

\* C9: "----" never becomes a key of the mapping, wherever the atom is, and
\* the Decoder goes on with the atom that follows it.
C9_DashesNeverStored ==
    /\ [](dashes \notin DOMAIN tag)
    /\ [](\A i \in 1..Len(dVisits) : dVisits[i].name = dashes => ~dVisits[i].stored)
    /\ [][AtDashes => (/\ seek' = Add(seek, getLongAt(seek))
                       /\ pc' = "parsing"
                       /\ tag' = tag)]_vars

C9_Witness ==
    /\ pc = "parsed"
    /\ \E i, j \in 1..Len(dVisits) :
          /\ i < j
          /\ dVisits[i].name = dashes
          /\ dVisits[i].path = MetaPath
          /\ dVisits[j].stored
          /\ dVisits[j].name \in DOMAIN tag

\* C10: canReadTagFormat returns true exactly when bytes 4..10 of the
\* identifier array are the codes of "ftypM4A", whatever bytes 0..3 are.
C10_SignatureCheck ==
    canRead # "none" =>
        (canRead = "true" <=>
            /\ tagIdentifier[5] = 102 /\ tagIdentifier[6] = 116
            /\ tagIdentifier[7] = 121 /\ tagIdentifier[8] = 112
            /\ tagIdentifier[9] = 77 /\ tagIdentifier[10] = 52
            /\ tagIdentifier[11] = 65)

C10_Witness == canRead = "true" /\ tagIdentifier[1] = 32 /\ tagIdentifier[4] = 0

\* the i-th _loadAtom call read a header: a size that ends nothing, and a name
LoaderRead(i) ==
    /\ loadAtomCalls[i].offset < getSize
    /\ ~EndOfAtoms(getLongAt(loadAtomCalls[i].offset))

\* position p lies in a range whose loadRange has succeeded
Loaded(p) == \E r \in completed : r[1] <= p /\ p <= r[2]

\* C11: whenever _loadAtom reads the header at an offset below the total size,
\* the bytes of that header that exist in the file lie in a range whose
\* loadRange has already succeeded.
C11_HeaderPrimed ==
    \A i \in 1..Len(loadAtomCalls) :
        loadAtomCalls[i].offset < getSize =>
            \A p \in loadAtomCalls[i].offset..(loadAtomCalls[i].offset + 7) :
                p < getSize => Loaded(p)

C11_Witness ==
    /\ Len(loadAtomCalls) >= 5
    /\ LoaderRead(Len(loadAtomCalls))
    /\ loadAtomCalls[Len(loadAtomCalls)].path = MetaPath

\* C12: the Decoder visits no atom (no header whose size it could read)
\* located after the end of a container it has descended into, whatever the
\* container is.
C12_NothingAfterContainer ==
    Complete =>
        \A i, j \in 1..Len(dVisits) :
            (/\ i < j
             /\ _isContainerAtom(dVisits[i].name)
             /\ getLongAt(dVisits[j].off) # NaN) =>
                dVisits[j].off < dVisits[i].off + getLongAt(dVisits[i].off)

\* the last _loadAtom call read a zero size
LoaderAtZero ==
    /\ Len(loadAtomCalls) > 0
    /\ loadAtomCalls[Len(loadAtomCalls)].offset < getSize
    /\ getLongAt(loadAtomCalls[Len(loadAtomCalls)].offset) = 0

\* the Decoder stands at a header with a zero size
DecoderAtZero == pc = "parsing" /\ Lt(seek, limit) /\ getLongAt(seek) = 0

\* C13: on a zero size the Loader calls callbacks.onSuccess, issues no further
\* loadRange and never calls callbacks.onError; the Decoder stops reading
\* atoms, keeps the entries decoded so far and raises no error.
C13_ZeroSizeStops ==
    /\ [](LoaderAtZero => (nSuccess = 1 /\ nError = 0 /\ pending = {}))
    /\ [][LoaderAtZero =>
            UNCHANGED <<requested, pending, loadAtomCalls, nSuccess, nError>>]_vars
    /\ [][DecoderAtZero =>
            (pc' = "parsed" /\ tag' = tag /\ dVisits' = dVisits)]_vars

C13_Witness ==
    /\ pc = "parsed"
    /\ LoaderAtZero
    /\ Lt(seek, limit)
    /\ getLongAt(seek) = 0
    /\ dpath = MetaPath
    /\ nam \in DOMAIN tag
    /\ seek + 8 < getSize

FirstChild(name, o) == IF name = meta THEN o + 12 ELSE o + 8

\* C15: after a container at offset o the Loader requests a range starting at
\* o + 12 for meta and o + 8 for moov, udta and ilst and reads its next header
\* there, and the Decoder reads its next header at the same offset.
C15_MetaSkip ==
    /\ \A i \in 1..Len(loadAtomCalls) :
          LET o == loadAtomCalls[i].offset
              name == getStringAt(o + 4, 4)
          IN (LoaderRead(i) /\ _isContainerAtom(name)) =>
                /\ <<FirstChild(name, o), FirstChild(name, o) + 8>> \in requested
                /\ i < Len(loadAtomCalls) =>
                      loadAtomCalls[i + 1].offset = FirstChild(name, o)
    /\ \A i \in 1..Len(dVisits) :
          _isContainerAtom(dVisits[i].name) =>
              IF i < Len(dVisits)
              THEN dVisits[i + 1].off = FirstChild(dVisits[i].name, dVisits[i].off)
              ELSE seek = FirstChild(dVisits[i].name, dVisits[i].off)

C15_Witness ==
    /\ pc = "parsed"
    /\ \E i \in 1..Len(dVisits) :
          /\ i < Len(dVisits)
          /\ dVisits[i].name = meta
          /\ dVisits[i + 1].name = ilst
          /\ dVisits[i + 1].off = dVisits[i].off + 12
          /\ loadAtomCalls[i + 1].offset = dVisits[i].off + 12

\* C16: callbacks.onSuccess and callbacks.onError are invoked once in total,
\* and after that no loadRange is outstanding or issued.
C16_OneTerminalCallback ==
    /\ [](nSuccess + nError <= 1)
    /\ [](nSuccess + nError = 1 => pending = {})
    /\ [][nSuccess + nError >= 1 =>
            UNCHANGED <<requested, pending, nSuccess, nError>>]_vars

C16_Witness ==
    /\ nSuccess = 0
    /\ nError = 1
    /\ Len(loadAtomCalls) >= 5
    /\ Cardinality(requested) >= 6

\* the value the bytes of the atom at offset o decode to
OwnValue(o, name) ==
    LET v == Decode(TypeOf(getInteger24At(o + 17)), o + 24,
                    Add(getLongAt(o), -24), Undefined)
    IN IF name = cmt THEN [v EXCEPT !.wrapped = TRUE] ELSE v

\* C17: the value stored for an atom other than trkn is the value its own
\* bytes decode to, and undefined when its class is no key of TYPES.
C17_ValueFromOwnBytes ==
    [][(/\ Complete
        /\ pc = "parsing"
        /\ Len(dVisits') = Len(dVisits) + 1
        /\ dVisits'[Len(dVisits')].stored
        /\ dVisits'[Len(dVisits')].name # trkn) =>
           tag'[dVisits'[Len(dVisits')].name]
               = OwnValue(seek, dVisits'[Len(dVisits')].name)]_vars

\* C18: _parseData returns, and every iteration of the loop of _readAtom that
\* does not return moves seek up by a positive atom size (a recursive call
\* starts at a larger offset too).
C18_DecoderTerminates ==
    /\ (pc = "parsing") ~> (pc = "parsed")
    /\ [][(pc = "parsing" /\ pc' = "parsing") => Lt(seek, seek')]_vars

====
